---- MODULE Spec2Model ----
(***************************************************************************)
(* Model of the voice chat relay: the FastAPI server of main.py (one       *)
(* chat_endpoint pipeline per request: recognition, agent conversation,    *)
(* synthesis) seen as a state machine whose steps are the calls the code   *)
(* makes to its external collaborators.                                    *)
(*                                                                         *)
(* A Python str / bytes value is modelled as a sequence of tokens: the     *)
(* empty string is <<>>, an f-string is the concatenation (\o) of its      *)
(* literal parts and of the formatted values, and "s contains t" is the    *)
(* sub-sequence test Contains(s, t).                                       *)
(***************************************************************************)
EXTENDS Naturals, Sequences, FiniteSets

\* Bounds of the model.
NumReqs == 2      \* request slots the server may hold
MaxRequests == 2  \* requests accepted during one run of the server
MaxMsgs == 2      \* messages an agent run appends to a thread
MaxSegs == 2      \* text segments of one message
MaxReruns == 3    \* runs of the client script in one browser session

Reqs == 1..NumReqs

----------------------------------------------------------------------------
\* Strings.

EmptyText == <<>>

\* not s  (Python truthiness of a str)
IsEmpty(s) == s = <<>>

\* t in s
Contains(s, t) ==
    \E i \in 0..(Len(s) - Len(t)) : SubSeq(s, i + 1, i + Len(t)) = t

\* The texts the speech engine may recognise (an empty text included).
Transcripts == {<<>>, <<"hello">>}
\* The values of one text segment of an agent message.
SegTexts == {<<>>, <<"hi">>}
\* run.last_error, formatted.
LastErrors == {<<"rate_limit">>}
\* cancellation_details.reason and .error_details, formatted.
CancelReasons == {<<"CancellationReason.Error">>}
CancelDetails == {<<"quota">>}
\* str(e) of an exception raised by a library or a remote call.
ExcMessages == {<<"boom">>}

NoSpeechDetail == <<"No speech could be recognized.">>
NotUnderstoodDetail == <<"Could not understand the audio.">>
NotInitialized == <<"Error: AI Project Client is not initialized. Check server logs.">>
FallbackResponse == <<"Sorry, I couldn't get a response.">>
Apology == <<"I'm sorry, but I encountered an error while trying to process your request.">>
NoneTypeMessage == <<"'NoneType' object has no attribute 'getvalue'">>

RecognitionCanceledDetail(reason, details) ==
    <<"Speech Recognition canceled: ">> \o reason \o <<". Error: ">> \o details

SynthesisCanceledDetail(reason, details) ==
    <<"Text-to-Speech canceled: ">> \o reason \o <<". Error: ">> \o details

AgentErrorText(last_error) ==
    <<"The agent encountered an error: ">> \o last_error

InternalErrorDetail(msg) ==
    <<"An internal server error occurred. Details: ">> \o msg

----------------------------------------------------------------------------
\* Exceptions and responses.

HTTPException(status, detail) == [http |-> TRUE, status |-> status, msg |-> detail]
Exception(msg) == [http |-> FALSE, status |-> 0, msg |-> msg]

NoResponse == [status |-> 0, detail |-> <<>>, body |-> <<>>, sent |-> FALSE]
ErrorResponse(status, detail) ==
    [status |-> status, detail |-> detail, body |-> <<>>, sent |-> TRUE]
Response(content) ==
    [status |-> 200, detail |-> <<>>, body |-> content, sent |-> TRUE]

\* The outcome of a call: a returned value or a raised exception.
NoException == [http |-> FALSE, status |-> 0, msg |-> <<>>]
Return(v) == [raised |-> FALSE, exc |-> NoException, value |-> v]
Raise(e) == [raised |-> TRUE, exc |-> e, value |-> <<>>]

----------------------------------------------------------------------------
\* What the external collaborators may answer.

\* The uploaded file: bytes that parse as a WAV container, or bytes that do not.
Uploads == {"wav", "malformed"}

\* result of speech_recognizer.recognize_once_async().get()
RecognitionResults ==
    {[reason |-> "RecognizedSpeech", text |-> t, cancel_reason |-> <<>>, error_details |-> <<>>] :
        t \in Transcripts}
    \cup {[reason |-> "NoMatch", text |-> <<>>, cancel_reason |-> <<>>, error_details |-> <<>>]}
    \cup {[reason |-> "Canceled", text |-> <<>>, cancel_reason |-> c, error_details |-> d] :
        c \in CancelReasons, d \in CancelDetails}
    \cup {[reason |-> "Other", text |-> <<>>, cancel_reason |-> <<>>, error_details |-> <<>>]}

NoRecognition ==
    [reason |-> "none", text |-> <<>>, cancel_reason |-> <<>>, error_details |-> <<>>]

\* The bytes the synthesis engine produces for a text.
SynthesizedAudio(text) == {<<>>, <<"RIFF">> \o text}

\* result of speech_synthesizer.speak_text_async(text).get()
SynthesisResults(text) ==
    {[reason |-> "SynthesizingAudioCompleted", audio_data |-> a, cancel_reason |-> <<>>,
      error_details |-> <<>>] : a \in SynthesizedAudio(text)}
    \cup {[reason |-> "Canceled", audio_data |-> <<>>, cancel_reason |-> c, error_details |-> d] :
        c \in CancelReasons, d \in CancelDetails}
    \cup {[reason |-> "Other", audio_data |-> <<>>, cancel_reason |-> <<>>, error_details |-> <<>>]}

NoSynthesis ==
    [reason |-> "none", audio_data |-> <<>>, cancel_reason |-> <<>>, error_details |-> <<>>]

\* Thread messages: a role and the ordered text segments.
SegLists == UNION {[1..n -> SegTexts] : n \in 0..MaxSegs}
AssistantMessages == {[role |-> "assistant", text_messages |-> s] : s \in SegLists}
UserMessage(content) == [role |-> "user", text_messages |-> <<content>>]
\* The messages one agent run appends to its thread, oldest first.
RunProduced == UNION {[1..n -> AssistantMessages] : n \in 0..MaxMsgs}
\* run.status when create_and_process returns.
RunStatuses == {"completed", "failed", "cancelled"}
NoRun == [status |-> "none", last_error |-> <<>>]

Reverse(s) == [i \in 1..Len(s) |-> s[Len(s) + 1 - i]]

\* Mutant of ListDescending: the listing comes oldest first.
ListAscending(thread_msgs) == thread_msgs

\* messages.list(thread_id, order=DESCENDING): newest first.
ListDescending(thread_msgs) == Reverse(thread_msgs)

----------------------------------------------------------------------------
VARIABLES
    startup,        \* the server module's load: position, environment, speech_config
    client,         \* the browser session of app.py: st.session_state and the rerun
    project_client, \* "client", or "None" when AIProjectClient(...) raised at startup
    req,            \* per slot: the frame of the request being handled
    served,         \* requests accepted so far
    next_thread,    \* the agent backend's next fresh thread id
    calls           \* the calls made on the agent backend, in order

vars == <<startup, client, project_client, req, served, next_thread, calls>>

\* The frame of a request: the locals of chat_endpoint and of the stage
\* functions it is in, and how often each stage was entered.
IdleFrame ==
    [pc |-> "idle", id |-> 0, file |-> "none", audio_data |-> "none",
     user_text |-> <<>>, thread |-> 0, thread_msgs |-> <<>>, run |-> NoRun,
     messages |-> <<>>, ret |-> <<>>, via |-> "none",
     agent_response_text |-> <<>>, tts_text |-> <<>>,
     recognition |-> NoRecognition, synthesis |-> NoSynthesis,
     audio_response_stream |-> [present |-> FALSE, bytes |-> <<>>],
     response |-> NoResponse, raised |-> NoException,
     n_stt |-> 0, n_engine |-> 0, n_agent |-> 0, n_tts |-> 0]

\* os.environ, as far as the server reads it: which variables are set.
Envs ==
    [SPEECH_KEY : BOOLEAN, SPEECH_REGION : BOOLEAN, SPEECH_ENDPOINT : BOOLEAN,
     AI_PROJECT_ENDPOINT : BOOLEAN, AGENT_ID : BOOLEAN]

\* The server module loaded to its end with the variables of .env set and no
\* custom speech endpoint.
Serving ==
    [pc |-> "serving",
     env |-> [SPEECH_KEY |-> TRUE, SPEECH_REGION |-> TRUE, SPEECH_ENDPOINT |-> FALSE,
              AI_PROJECT_ENDPOINT |-> TRUE, AGENT_ID |-> TRUE],
     speech_config |-> "region"]

\* An absent value of the client session (None).
NoClip == [present |-> FALSE, bytes |-> <<>>]
Clip(bytes) == [present |-> TRUE, bytes |-> bytes]

\* The session of app.py before its first run: no session state yet.
FreshSession ==
    [pc |-> "idle", messages |-> <<>>, last_audio |-> NoClip, audio_to_play |-> NoClip,
     wav_audio_data |-> NoClip, outcome |-> "none", reruns |-> 0,
     recorded |-> <<>>, posts |-> <<>>, played |-> <<>>]

\* The server is up and no request has arrived.
Init ==
    /\ startup = Serving
    /\ client = FreshSession
    /\ project_client \in {"client", "None"}
    /\ req = [r \in Reqs |-> IdleFrame]
    /\ served = 0
    /\ next_thread = 1
    /\ calls = <<>>

----------------------------------------------------------------------------
\* The code's pure parts.

\* Mutant of recognition_outcome: NoMatch is not told apart from the other
\* results without a text.
recognition_nomatch_as_empty(result) ==
    CASE result.reason = "RecognizedSpeech" -> Return(result.text)
      [] result.reason = "Canceled" ->
            Raise(HTTPException(500,
                RecognitionCanceledDetail(result.cancel_reason, result.error_details)))
      [] OTHER -> Return(EmptyText)

\* speech_to_text_from_audio_data, the check of the recognition result.
recognition_outcome(result) ==
    CASE result.reason = "RecognizedSpeech" -> Return(result.text)
      [] result.reason = "NoMatch" -> Raise(HTTPException(400, NoSpeechDetail))
      [] result.reason = "Canceled" ->
            Raise(HTTPException(500,
                RecognitionCanceledDetail(result.cancel_reason, result.error_details)))
      [] OTHER -> Return(EmptyText)

\* Mutant of transcript_outcome: the empty transcript is not rejected.
transcript_unchecked(user_text) == Return(user_text)

\* chat_endpoint: if not user_text: raise HTTPException(400, ...)
transcript_outcome(user_text) ==
    IF IsEmpty(user_text)
    THEN Raise(HTTPException(400, NotUnderstoodDetail))
    ELSE Return(user_text)

NoneStream == [present |-> FALSE, bytes |-> <<>>]
BytesIO(bytes) == [present |-> TRUE, bytes |-> bytes]

\* text_to_speech_to_stream, the check of the synthesis result.
synthesis_outcome(result) ==
    CASE result.reason = "SynthesizingAudioCompleted" -> Return(BytesIO(result.audio_data))
      [] result.reason = "Canceled" ->
            Raise(HTTPException(500,
                SynthesisCanceledDetail(result.cancel_reason, result.error_details)))
      [] OTHER -> Return(NoneStream)

\* Mutant of getvalue: an absent stream is read as zero-length audio.
getvalue_or_empty(stream) ==
    IF stream.present THEN Return(stream.bytes) ELSE Return(<<>>)

\* audio_response_stream.getvalue()
getvalue(stream) ==
    IF stream.present THEN Return(stream.bytes) ELSE Raise(Exception(NoneTypeMessage))

\* get_agent_response: the scan of the listing for the reply.
RECURSIVE scan_messages(_, _)
scan_messages(messages, i) ==
    IF i > Len(messages)
    THEN FallbackResponse
    ELSE IF messages[i].role = "assistant" /\ messages[i].text_messages # <<>>
         THEN messages[i].text_messages[Len(messages[i].text_messages)]
         ELSE scan_messages(messages, i + 1)

\* Mutant of select_reply: the scan does not look at the role.
RECURSIVE scan_any_role(_, _)
scan_any_role(messages, i) ==
    IF i > Len(messages)
    THEN FallbackResponse
    ELSE IF messages[i].text_messages # <<>>
         THEN messages[i].text_messages[Len(messages[i].text_messages)]
         ELSE scan_any_role(messages, i + 1)

select_reply_any_role(messages) == scan_any_role(messages, 1)

select_reply(messages) == scan_messages(messages, 1)

\* Mutant of run_failed: the run's status is not looked at.
run_failed_ignored(run) == FALSE

\* get_agent_response: if run.status == "failed": return f"...{run.last_error}"
run_failed(run) == run.status = "failed"

\* Mutant of agent_except: the handler lets the exception through.
agent_except_reraise(e) == Raise(e)

\* get_agent_response: except Exception as e: return "I'm sorry, ..."
agent_except(e) == Return(Apology)

\* Mutant of chat_endpoint_except: one handler reports every exception as an
\* internal error.
chat_endpoint_except_all(e) == ErrorResponse(500, InternalErrorDetail(e.msg))

\* chat_endpoint: except HTTPException: raise e / except Exception: raise 500
chat_endpoint_except(e) ==
    IF e.http
    THEN ErrorResponse(e.status, e.msg)
    ELSE ErrorResponse(500, InternalErrorDetail(e.msg))

----------------------------------------------------------------------------
\* The request pipeline (chat_endpoint), one action per call it makes.

\* One call on the agent backend.
Call(op, id, thread, role, content) ==
    [op |-> op, id |-> id, thread |-> thread, role |-> role, content |-> content]

\* chat_endpoint's except clauses: the request ends with an error response.
Errored(f, e) ==
    [f EXCEPT !.pc = "done", !.response = chat_endpoint_except(e), !.raised = e]

\* get_agent_response returns v (the frame's locals are still alive).
AgentReturns(f, v, via) ==
    [f EXCEPT !.pc = "agent_ret", !.ret = v, !.via = via]

\* Mutant of AgentRaised: the stage is entered again after an exception.
AgentRaisedRetry(f, e) == [f EXCEPT !.pc = "agent"]

\* An exception inside get_agent_response's try block.
AgentRaised(f, e) ==
    LET o == agent_except(e)
    IN  IF o.raised THEN Errored(f, o.exc) ELSE AgentReturns(f, o.value, "except")

\* A POST /api/chat arrives.
Receive(r) ==
    /\ startup.pc = "serving"
    /\ req[r].pc \in {"idle", "done"}
    /\ served < MaxRequests
    /\ \E f \in Uploads :
          req' = [req EXCEPT ![r] =
                    [IdleFrame EXCEPT !.pc = "read", !.id = served + 1, !.file = f]]
    /\ served' = served + 1
    /\ UNCHANGED <<startup, client, project_client, next_thread, calls>>

\* audio_data = await file.read()
ReadUpload(r) ==
    /\ req[r].pc = "read"
    /\ \/ req' = [req EXCEPT ![r] = [@ EXCEPT !.pc = "wave", !.audio_data = req[r].file]]
       \/ \E m \in ExcMessages : req' = [req EXCEPT ![r] = Errored(@, Exception(m))]
    /\ UNCHANGED <<startup, client, project_client, served, next_thread, calls>>

\* speech_to_text_from_audio_data: wave.open(...) and the reads of the header.
ParseWave(r) ==
    /\ req[r].pc = "wave"
    /\ LET f == [req[r] EXCEPT !.n_stt = @ + 1]
       IN  req' = [req EXCEPT ![r] =
                     IF f.audio_data = "malformed"
                     THEN Errored(f, Exception(<<"file does not start with RIFF id">>))
                     ELSE [f EXCEPT !.pc = "recognize"]]
    /\ UNCHANGED <<startup, client, project_client, served, next_thread, calls>>

\* speech_to_text_from_audio_data: the recognition and the check of its result,
\* then chat_endpoint's check of the transcript.
Recognize(r) ==
    /\ req[r].pc = "recognize"
    /\ \/ \E result \in RecognitionResults :
            LET f  == [req[r] EXCEPT !.n_engine = @ + 1, !.recognition = result]
                o1 == recognition_outcome(result)
                o2 == IF o1.raised THEN o1 ELSE transcript_outcome(o1.value)
            IN  req' = [req EXCEPT ![r] =
                          IF o2.raised
                          THEN Errored(f, o2.exc)
                          ELSE [f EXCEPT !.pc = "agent", !.user_text = o2.value]]
       \/ \E m \in ExcMessages :
            req' = [req EXCEPT ![r] =
                      Errored([@ EXCEPT !.n_engine = @ + 1], Exception(m))]
    /\ UNCHANGED <<startup, client, project_client, served, next_thread, calls>>

\* Mutant of client_missing: the check of project_client is left out.
client_assumed == FALSE

\* get_agent_response: if not project_client
client_missing == project_client = "None"

\* get_agent_response is called: if not project_client: return "Error: ..."
AgentStart(r) ==
    /\ req[r].pc = "agent"
    /\ LET f == [req[r] EXCEPT !.n_agent = @ + 1]
       IN  req' = [req EXCEPT ![r] =
                     IF client_missing
                     THEN AgentReturns(f, NotInitialized, "not_initialized")
                     ELSE [f EXCEPT !.pc = "thread"]]
    /\ UNCHANGED <<startup, client, project_client, served, next_thread, calls>>

\* thread = project_client.agents.threads.create()
ThreadCreate(r) ==
    /\ req[r].pc = "thread"
    /\ calls' = Append(calls, Call("threads.create", req[r].id, 0, "", <<>>))
    /\ \/ /\ req' = [req EXCEPT ![r] = [@ EXCEPT !.pc = "message", !.thread = next_thread]]
          /\ next_thread' = next_thread + 1
       \/ /\ \E m \in ExcMessages : req' = [req EXCEPT ![r] = AgentRaised(@, Exception(m))]
          /\ UNCHANGED next_thread
    /\ UNCHANGED <<startup, client, project_client, served>>

\* Mutant of user_message_call: the message goes to one thread kept for all
\* requests instead of the thread just created.
user_message_shared_thread(f) ==
    Call("messages.create", f.id, 1, "user", f.user_text)

\* project_client.agents.messages.create(thread_id, role="user", content=user_text)
user_message_call(f) ==
    Call("messages.create", f.id, f.thread, "user", f.user_text)

MessageCreate(r) ==
    /\ req[r].pc = "message"
    /\ calls' = Append(calls, user_message_call(req[r]))
    /\ \/ req' = [req EXCEPT ![r] =
                    [@ EXCEPT !.pc = "run",
                              !.thread_msgs = Append(@, UserMessage(req[r].user_text))]]
       \/ \E m \in ExcMessages : req' = [req EXCEPT ![r] = AgentRaised(@, Exception(m))]
    /\ UNCHANGED <<startup, client, project_client, served, next_thread>>

\* run = project_client.agents.runs.create_and_process(thread_id, agent_id)
\* and the check of run.status.
RunAgentProducing(r, Produced) ==
    /\ req[r].pc = "run"
    /\ calls' = Append(calls, Call("runs.create_and_process", req[r].id, req[r].thread, "", <<>>))
    /\ \/ \E status \in RunStatuses, produced \in Produced, err \in LastErrors :
            LET run == [status |-> status,
                        last_error |-> IF status = "failed" THEN err ELSE <<"None">>]
                f   == [req[r] EXCEPT !.run = run, !.thread_msgs = @ \o produced]
            IN  req' = [req EXCEPT ![r] =
                          IF run_failed(run)
                          THEN AgentReturns(f, AgentErrorText(run.last_error), "failed")
                          ELSE [f EXCEPT !.pc = "list"]]
       \/ \E m \in ExcMessages : req' = [req EXCEPT ![r] = AgentRaised(@, Exception(m))]
    /\ UNCHANGED <<startup, client, project_client, served, next_thread>>

\* The run may leave any messages in the thread.
RunAgent(r) == RunAgentProducing(r, RunProduced)

\* messages = project_client.agents.messages.list(thread_id, order=DESCENDING)
\* and the scan for the assistant's reply.
ListMessages(r) ==
    /\ req[r].pc = "list"
    /\ calls' = Append(calls, Call("messages.list", req[r].id, req[r].thread, "", <<>>))
    /\ \/ LET messages == ListDescending(req[r].thread_msgs)
          IN  req' = [req EXCEPT ![r] =
                        AgentReturns([@ EXCEPT !.messages = messages],
                                     select_reply(messages), "selected")]
       \/ \E m \in ExcMessages : req' = [req EXCEPT ![r] = AgentRaised(@, Exception(m))]
    /\ UNCHANGED <<startup, client, project_client, served, next_thread>>

\* agent_response_text = get_agent_response(user_text): the callee's locals die.
AgentReturn(r) ==
    /\ req[r].pc = "agent_ret"
    /\ req' = [req EXCEPT ![r] =
                 [@ EXCEPT !.pc = "tts", !.agent_response_text = req[r].ret,
                           !.thread = 0, !.thread_msgs = <<>>, !.run = NoRun,
                           !.messages = <<>>, !.ret = <<>>]]
    /\ UNCHANGED <<startup, client, project_client, served, next_thread, calls>>

\* audio_response_stream = text_to_speech_to_stream(agent_response_text)
Synthesize(r) ==
    /\ req[r].pc = "tts"
    /\ LET f == [req[r] EXCEPT !.n_tts = @ + 1, !.tts_text = req[r].agent_response_text]
       IN  \/ \E result \in SynthesisResults(f.tts_text) :
                LET g == [f EXCEPT !.synthesis = result]
                    o == synthesis_outcome(result)
                IN  req' = [req EXCEPT ![r] =
                              IF o.raised
                              THEN Errored(g, o.exc)
                              ELSE [g EXCEPT !.pc = "respond",
                                             !.audio_response_stream = o.value]]
           \/ \E m \in ExcMessages : req' = [req EXCEPT ![r] = Errored(f, Exception(m))]
    /\ UNCHANGED <<startup, client, project_client, served, next_thread, calls>>

\* audio_bytes = audio_response_stream.getvalue(); return Response(content=audio_bytes)
Respond(r) ==
    /\ req[r].pc = "respond"
    /\ LET o == getvalue(req[r].audio_response_stream)
       IN  req' = [req EXCEPT ![r] =
                     IF o.raised
                     THEN Errored(@, o.exc)
                     ELSE [@ EXCEPT !.pc = "done", !.response = Response(o.value)]]
    /\ UNCHANGED <<startup, client, project_client, served, next_thread, calls>>

----------------------------------------------------------------------------
\* The load of the server module (main.py, top level).

\* if not SPEECH_KEY or not SPEECH_REGION
speech_config_missing(env) == ~env.SPEECH_KEY \/ ~env.SPEECH_REGION

\* Mutant of agent_config_missing: AGENT_ID is not checked.
agent_endpoint_missing(env) == ~env.AI_PROJECT_ENDPOINT

\* if not AI_PROJECT_ENDPOINT or not AGENT_ID
agent_config_missing(env) == ~env.AI_PROJECT_ENDPOINT \/ ~env.AGENT_ID

\* load_dotenv(), the reads of the speech variables and their check.
CheckSpeechConfig ==
    /\ startup.pc = "load"
    /\ startup' = [startup EXCEPT !.pc =
                     IF speech_config_missing(startup.env) THEN "aborted" ELSE "speech_config"]
    /\ UNCHANGED <<client, project_client, req, served, next_thread, calls>>

\* speech_config = SpeechConfig(endpoint=...) or SpeechConfig(region=...)
MakeSpeechConfig ==
    /\ startup.pc = "speech_config"
    /\ startup' = [startup EXCEPT
                     !.pc = "check_agent",
                     !.speech_config =
                        IF startup.env.SPEECH_ENDPOINT THEN "endpoint" ELSE "region"]
    /\ UNCHANGED <<client, project_client, req, served, next_thread, calls>>

\* The reads of the agent variables and their check.
CheckAgentConfig ==
    /\ startup.pc = "check_agent"
    /\ startup' = [startup EXCEPT !.pc =
                     IF agent_config_missing(startup.env) THEN "aborted" ELSE "client"]
    /\ UNCHANGED <<client, project_client, req, served, next_thread, calls>>

\* try: project_client = AIProjectClient(...) except: project_client = None,
\* then the FastAPI application is set up and serves.
CreateClient ==
    /\ startup.pc = "client"
    /\ project_client' \in {"client", "None"}
    /\ startup' = [startup EXCEPT !.pc = "serving"]
    /\ UNCHANGED <<client, req, served, next_thread, calls>>

\* The server handles its requests one after the other, in slot 1.
Step(r) ==
    \/ Receive(r)
    \/ ReadUpload(r)
    \/ ParseWave(r)
    \/ Recognize(r)
    \/ AgentStart(r)
    \/ ThreadCreate(r)
    \/ MessageCreate(r)
    \/ RunAgent(r)
    \/ ListMessages(r)
    \/ AgentReturn(r)
    \/ Synthesize(r)
    \/ Respond(r)

Next == \E r \in {1} : Step(r)

Spec == Init /\ [][Next]_vars

\* The server from the load of its module on, in any environment.
InitStartup ==
    /\ startup \in [pc : {"load"}, env : Envs, speech_config : {"none"}]
    /\ client = FreshSession
    /\ project_client = "unset"
    /\ req = [r \in Reqs |-> IdleFrame]
    /\ served = 0
    /\ next_thread = 1
    /\ calls = <<>>

NextStartup ==
    \/ CheckSpeechConfig
    \/ MakeSpeechConfig
    \/ CheckAgentConfig
    \/ CreateClient
    \/ \E r \in {1} : Step(r)

SpecStartup == InitStartup /\ [][NextStartup]_vars

\* What an ordinary run leaves in its thread: nothing, or one reply.
OrdinaryProduced ==
    {<<>>, <<[role |-> "assistant", text_messages |-> <<<<"hi">>>>]>>}

\* A request whose collaborators all answered in the ordinary way: the upload
\* is a WAV file, recognition gave a transcript, no call raised, the run
\* completed, synthesis completed with audio.
Ordinary(f) ==
    /\ f.audio_data # "malformed"
    /\ f.recognition.reason \in {"none", "RecognizedSpeech"}
    /\ f.raised = NoException
    /\ f.ret # Apology
    /\ f.run.status \in {"none", "completed"}
    /\ f.synthesis.reason \in {"none", "SynthesizingAudioCompleted"}
    /\ f.synthesis.reason = "SynthesizingAudioCompleted" => f.synthesis.audio_data # <<>>

\* The slots that hold requests side by side. Independence is a property of
\* every pair of requests, so two slots show it; a later request takes the
\* slot of a finished one while the other is still in flight.
Slots == {1, 2}

\* The server with requests in flight side by side, one per slot, their steps
\* interleaved in any order; every request is an ordinary one.
StepConc(r) ==
    \/ Receive(r) /\ Ordinary(req'[r])
    \/ ReadUpload(r) /\ Ordinary(req'[r])
    \/ ParseWave(r) /\ Ordinary(req'[r])
    \/ Recognize(r) /\ Ordinary(req'[r])
    \/ AgentStart(r) /\ Ordinary(req'[r])
    \/ ThreadCreate(r) /\ Ordinary(req'[r])
    \/ MessageCreate(r) /\ Ordinary(req'[r])
    \/ RunAgentProducing(r, OrdinaryProduced) /\ Ordinary(req'[r])
    \/ ListMessages(r) /\ Ordinary(req'[r])
    \/ AgentReturn(r) /\ Ordinary(req'[r])
    \/ Synthesize(r) /\ Ordinary(req'[r])
    \/ Respond(r) /\ Ordinary(req'[r])

NextConc == \E r \in Slots : StepConc(r)

SpecConc == Init /\ [][NextConc]_vars

----------------------------------------------------------------------------
\* Properties.

Done(r) == req[r].pc = "done"

\* The positions inside get_agent_response.
AgentPcs == {"agent", "thread", "message", "run", "list", "agent_ret"}

\* The values get_agent_response returns that are not taken from a message.
FixedReplies ==
    {NotInitialized, FallbackResponse, Apology} \cup {AgentErrorText(e) : e \in LastErrors}

\* C1: the conversation stage never raises to its caller: from every position
\* inside get_agent_response, whatever the agent backend answers, the request
\* stays in the stage or leaves it for synthesis with a returned text; it never
\* leaves it for an error response.
C1_ConversationNeverRaises ==
    [][\A r \in Reqs :
         req[r].pc \in AgentPcs =>
            /\ req'[r].pc \in AgentPcs \cup {"tts"}
            /\ ~req'[r].response.sent
            /\ req'[r].raised = NoException
            /\ req'[r].pc = "agent_ret" =>
                 req'[r].ret \in FixedReplies \cup SegTexts
            /\ req'[r].pc = "tts" =>
                 /\ req'[r].agent_response_text = req[r].ret
                 /\ req'[r].n_agent = 1]_vars

\* C1 witness: an exception was raised inside the stage, and the request went on
\* to a 200 response carrying the synthesized apology.
C1_Witness ==
    \E r \in Reqs :
        /\ Done(r)
        /\ req[r].via = "except"
        /\ req[r].tts_text = Apology
        /\ req[r].response.status = 200

\* C2 (as claimed): the text passed to text_to_speech_to_stream is never empty.
C2_NeverEmptyToSynthesis ==
    \A r \in Reqs : req[r].n_tts > 0 => ~IsEmpty(req[r].tts_text)

\* A request whose recognition gave no usable transcript.
NoTranscript(f) ==
    \/ f.recognition.reason \in {"NoMatch", "Other"}
    \/ f.recognition.reason = "RecognizedSpeech" /\ IsEmpty(f.recognition.text)

\* C3: stage-1 failures are classified distinctly: no speech or an empty
\* transcript ends the request with status 400, an engine cancellation ends it
\* with status 500 and a detail containing the cancellation reason and the
\* error details, and neither ever enters the conversation or synthesis stage.
C3_StageOneClassification ==
    \A r \in Reqs :
        /\ NoTranscript(req[r]) =>
              /\ Done(r)
              /\ req[r].response.sent
              /\ req[r].response.status = 400
              /\ req[r].n_agent = 0 /\ req[r].n_tts = 0
        /\ req[r].recognition.reason = "Canceled" =>
              /\ Done(r)
              /\ req[r].response.sent
              /\ req[r].response.status = 500
              /\ Contains(req[r].response.detail, req[r].recognition.cancel_reason)
              /\ Contains(req[r].response.detail, req[r].recognition.error_details)
              /\ req[r].n_agent = 0 /\ req[r].n_tts = 0

\* C3 witness: a recognition canceled by the engine has ended with status 500.
C3_Witness ==
    \E r \in Reqs :
        /\ Done(r)
        /\ req[r].recognition.reason = "Canceled"
        /\ req[r].response.status = 500

\* C4 (as claimed): when the engine recognizes no speech, the response is 400
\* with the detail "Could not understand the audio."
C4_SilentUploadDetail ==
    \A r \in Reqs :
        (Done(r) /\ NoTranscript(req[r])) =>
            /\ req[r].response.status = 400
            /\ req[r].response.detail = NotUnderstoodDetail

\* C4 (amended): when the engine recognizes no speech the response is 400; its
\* detail is "No speech could be recognized." when the engine reports NoMatch,
\* and "Could not understand the audio." when recognition returns an empty
\* transcript (recognized speech with an empty text, or another result that is
\* neither a match nor a cancellation).
C4_SilentUploadDetailAmended ==
    \A r \in Reqs :
        (Done(r) /\ NoTranscript(req[r])) =>
            /\ req[r].response.status = 400
            /\ req[r].response.detail =
                  IF req[r].recognition.reason = "NoMatch"
                  THEN NoSpeechDetail
                  ELSE NotUnderstoodDetail

\* C4 witness: the engine reported NoMatch and the request ended with 400 and
\* the engine-specific detail.
C4_Witness ==
    \E r \in Reqs :
        /\ Done(r)
        /\ req[r].recognition.reason = "NoMatch"
        /\ req[r].response.status = 400
        /\ req[r].response.detail = NoSpeechDetail

\* A request in flight.
InFlight(r) == req[r].pc \notin {"idle", "done"}

\* C5: every request ends in exactly one of Responded (200) or Errored (400 or
\* 500): a request in flight has sent nothing and can take a step; a finished
\* one has sent one response, 200 exactly when nothing was raised; an exception
\* that is no HTTPException gives 500 with a detail carrying its message; an
\* HTTPException passes through with its status and detail unchanged.
C5_OneOutcomePerRequest ==
    \A r \in Reqs :
        /\ InFlight(r) =>
              /\ ~req[r].response.sent
              /\ req[r].raised = NoException
              /\ ENABLED Step(r)
        /\ Done(r) =>
              /\ req[r].response.sent
              /\ req[r].response.status \in {200, 400, 500}
              /\ req[r].response.status = 200 <=> req[r].raised = NoException
              /\ req[r].raised.http =>
                    /\ req[r].raised.status \in {400, 500}
                    /\ req[r].response.status = req[r].raised.status
                    /\ req[r].response.detail = req[r].raised.msg
              /\ (~req[r].raised.http /\ req[r].raised # NoException) =>
                    /\ req[r].response.status = 500
                    /\ req[r].raised.msg # <<>>
                    /\ Contains(req[r].response.detail, req[r].raised.msg)
                    /\ req[r].response.detail # req[r].raised.msg

\* C5 witness: an exception that is no HTTPException, raised by the read of the
\* upload before any stage ran, ended a request with status 500.
C5_Witness ==
    \E r \in Reqs, m \in ExcMessages :
        /\ Done(r)
        /\ req[r].n_stt = 0
        /\ req[r].raised = Exception(m)
        /\ req[r].response = ErrorResponse(500, InternalErrorDetail(m))

\* C6: a synthesis that is canceled or ends in any other non-completed outcome
\* never leads to a 200: the request ends with status 500; a 200 is sent only
\* after a completed synthesis, and its body is exactly the synthesized bytes.
C6_SynthesisFailureIsError ==
    \A r \in Reqs :
        /\ req[r].synthesis.reason \in {"Canceled", "Other"} =>
              /\ req[r].response.status # 200
              /\ req[r].pc \in {"respond", "done"}
              /\ Done(r) => req[r].response.status = 500
        /\ req[r].synthesis.reason = "Canceled" => Done(r)
        /\ req[r].response.status = 200 =>
              /\ req[r].synthesis.reason = "SynthesizingAudioCompleted"
              /\ req[r].response.body = req[r].synthesis.audio_data
              /\ req[r].n_tts = 1

\* C6 witness: a synthesis that ended neither completed nor canceled (an absent
\* result) has ended the request with status 500.
C6_Witness ==
    \E r \in Reqs :
        /\ Done(r)
        /\ req[r].synthesis.reason = "Other"
        /\ req[r].response.status = 500

\* C7: with no agent client, the conversation stage makes no call on the agent
\* backend and returns the fixed "not initialized" diagnostic; a request with a
\* non-empty transcript reaches synthesis with that text, and ends with 200
\* when synthesis completes.
C7_UninitializedClient ==
    project_client = "None" =>
        /\ calls = <<>>
        /\ \A r \in Reqs :
              /\ req[r].pc \notin {"thread", "message", "run", "list"}
              /\ req[r].pc = "agent_ret" =>
                    req[r].ret = NotInitialized /\ req[r].via = "not_initialized"
              /\ req[r].pc \in {"tts", "respond"} =>
                    req[r].agent_response_text = NotInitialized
              /\ req[r].n_tts > 0 => req[r].tts_text = NotInitialized
              /\ (Done(r) /\ ~IsEmpty(req[r].user_text)) =>
                    /\ req[r].n_agent = 1
                    /\ req[r].n_tts = 1
                    /\ req[r].synthesis.reason = "SynthesizingAudioCompleted" =>
                          /\ req[r].response.status = 200
                          /\ req[r].response.body = req[r].synthesis.audio_data

\* C7 witness: with no agent client, a request ended with 200 and the
\* diagnostic was the text synthesized.
C7_Witness ==
    \E r \in Reqs :
        /\ project_client = "None"
        /\ Done(r)
        /\ req[r].tts_text = NotInitialized
        /\ req[r].response.status = 200
        /\ req[r].response.body = <<"RIFF">> \o NotInitialized

\* The calls request number i made on the agent backend, in order.
CallsOf(i) == SelectSeq(calls, LAMBDA c : c.id = i)

Ops(cs) == [k \in 1..Len(cs) |-> cs[k].op]

IsPrefix(a, b) == Len(a) <= Len(b) /\ SubSeq(b, 1, Len(a)) = a

\* The life of a thread.
Lifecycle ==
    <<"threads.create", "messages.create", "runs.create_and_process", "messages.list">>

\* C8: the thread lifecycle is one-shot and ordered. The calls of one call of
\* the conversation stage are a prefix of: create a thread, post one message,
\* run the agent, list the messages (each at most once, none before its
\* predecessor returned); the message, the run and the listing all use the
\* thread that call created; the message has role "user" and the transcript as
\* content; a call that reaches the listing has made each of the four calls
\* exactly once; and no thread is used by two calls of the stage.
C8_ThreadLifecycle ==
    /\ \A i \in 1..served :
          LET cs == CallsOf(i)
          IN  /\ IsPrefix(Ops(cs), Lifecycle)
              /\ \A k \in 2..Len(cs) : cs[k].thread # 0 /\ cs[k].thread = cs[2].thread
              /\ Len(cs) >= 2 => cs[2].role = "user"
              /\ \A r \in Reqs :
                    req[r].id = i =>
                       /\ Len(cs) >= 2 => cs[2].content = req[r].user_text
                       /\ (Len(cs) >= 2 /\ req[r].thread # 0) => cs[2].thread = req[r].thread
                       /\ req[r].pc \in {"idle", "read", "wave", "recognize", "agent", "thread"}
                             => Len(cs) = 0
                       /\ req[r].pc = "message" => Len(cs) = 1 /\ req[r].thread # 0
                       /\ req[r].pc = "run" => Len(cs) = 2
                       /\ req[r].pc = "list" => Len(cs) = 3
                       /\ req[r].via = "selected" => Len(cs) = 4
                       /\ req[r].via = "failed" => Len(cs) = 3
                       /\ req[r].via = "not_initialized" => Len(cs) = 0
    /\ \A j, k \in 1..Len(calls) :
          (calls[j].thread # 0 /\ calls[j].thread = calls[k].thread) => calls[j].id = calls[k].id
    /\ \A k \in 1..Len(calls) : calls[k].id \in 1..served /\ calls[k].thread < next_thread

\* C8 witness: two calls of the stage each went through the whole lifecycle,
\* on two different threads.
C8_Witness ==
    /\ Len(CallsOf(1)) = 4
    /\ Len(CallsOf(2)) = 4
    /\ CallsOf(1)[4].thread # CallsOf(2)[4].thread

Max(S) == CHOOSE x \in S : \A y \in S : y <= x

\* The positions, in append order, of the assistant-authored messages.
AssistantIdx(msgs) == {k \in 1..Len(msgs) : msgs[k].role = "assistant"}
\* ... and of those with at least one text segment.
AssistantWithText(msgs) == {k \in AssistantIdx(msgs) : msgs[k].text_messages # <<>>}

LastSegment(m) == m.text_messages[Len(m.text_messages)]

\* get_agent_response is about to return the reply it selected from the listing.
Selected(r) == req[r].pc = "agent_ret" /\ req[r].via = "selected"

SegmentsOf(msgs) ==
    {msgs[k].text_messages[j] : <<k, j>> \in
        {p \in (1..Len(msgs)) \X (1..MaxSegs) : p[2] <= Len(msgs[p[1]].text_messages)}}

\* C10: when the run ended in failure, the conversation stage returns a string
\* containing the run's last error; it does not raise, does not list the
\* thread's messages and does not return a message's text.
C10_FailedRun ==
    \A r \in Reqs :
        /\ req[r].run.status = "failed" =>
              /\ req[r].pc = "agent_ret"
              /\ req[r].via = "failed"
              /\ req[r].run.last_error # <<>>
              /\ Contains(req[r].ret, req[r].run.last_error)
              /\ req[r].ret \notin SegmentsOf(req[r].thread_msgs)
              /\ req[r].messages = <<>>
        /\ req[r].via = "failed" =>
              /\ \A k \in 1..Len(calls) :
                    calls[k].id = req[r].id => calls[k].op # "messages.list"
              /\ req[r].raised.msg \notin LastErrors
              /\ req[r].pc \in {"tts", "respond", "done"} =>
                    req[r].agent_response_text \in {AgentErrorText(e) : e \in LastErrors}
              /\ Done(r) => req[r].n_tts = 1

\* C10 witness: a failed run on a thread that holds an assistant message with
\* text, and the value about to be returned is the error string.
C10_Witness ==
    \E r \in Reqs, e \in LastErrors :
        /\ req[r].pc = "agent_ret"
        /\ req[r].run = [status |-> "failed", last_error |-> e]
        /\ <<"hi">> \in SegmentsOf(req[r].thread_msgs)
        /\ req[r].ret = AgentErrorText(e)

\* C11: when the run did not fail and the thread holds no assistant-authored
\* message, the conversation stage returns the fixed "couldn't get a response"
\* string, which is not the empty string, and that text reaches synthesis.
C11_FallbackWhenNoAssistant ==
    \A r \in Reqs :
        (Selected(r) /\ AssistantIdx(req[r].thread_msgs) = {}) =>
            /\ req[r].run.status \in RunStatuses \ {"failed"}
            /\ req[r].ret = FallbackResponse
            /\ ~IsEmpty(req[r].ret)
            /\ req[r].ret # req[r].user_text

\* C11 witness: the listing of a completed run holds the user's message only,
\* and the reply is the fallback string.
C11_Witness ==
    \E r \in Reqs :
        /\ Selected(r)
        /\ req[r].run.status = "completed"
        /\ req[r].messages = <<UserMessage(req[r].user_text)>>
        /\ req[r].ret = FallbackResponse

\* The stages of one request, in the order the state allows.
StagesInOrder(f) ==
    /\ f.n_stt <= 1 /\ f.n_engine <= f.n_stt
    /\ f.n_agent <= 1 /\ f.n_tts <= 1
    /\ f.n_agent = 1 =>
          /\ f.n_engine = 1
          /\ f.recognition.reason = "RecognizedSpeech"
          /\ ~IsEmpty(f.user_text)
          /\ f.user_text = f.recognition.text
    /\ (f.pc \in AgentPcs /\ f.pc # "agent") => f.n_agent = 1 /\ f.n_tts = 0
    /\ f.n_tts = 1 =>
          /\ f.n_agent = 1
          /\ f.via # "none"
          /\ f.pc \in {"respond", "done"}
          /\ f.tts_text = f.agent_response_text
    /\ f.response.status = 200 =>
          /\ f.pc = "done"
          /\ f.n_tts = 1
          /\ f.synthesis.reason = "SynthesizingAudioCompleted"

\* C16: within one request the stages are strictly sequential and never
\* retried: recognition, conversation and synthesis are each entered at most
\* once, the conversation only with a non-empty recognized transcript,
\* synthesis only with the text the conversation returned, a 200 only after a
\* completed synthesis; a step enters at most one stage; and once an exception
\* has reached the endpoint nothing more runs for that request.
C16_SequentialNoRetry ==
    [][\A r \in Reqs :
         /\ StagesInOrder(req'[r])
         /\ req'[r].id = req[r].id =>
               /\ req'[r].n_stt \in {req[r].n_stt, req[r].n_stt + 1}
               /\ req'[r].n_agent \in {req[r].n_agent, req[r].n_agent + 1}
               /\ req'[r].n_tts \in {req[r].n_tts, req[r].n_tts + 1}
               /\ (req'[r].n_stt + req'[r].n_agent + req'[r].n_tts)
                     <= (req[r].n_stt + req[r].n_agent + req[r].n_tts) + 1
               /\ req[r].raised # NoException => req'[r] = req[r]]_vars

\* C16 witness: a request answered with 200 after each stage ran once.
C16_Witness ==
    \E r \in Reqs :
        /\ Done(r)
        /\ req[r].response.status = 200
        /\ req[r].n_stt = 1 /\ req[r].n_engine = 1
        /\ req[r].n_agent = 1 /\ req[r].n_tts = 1
        /\ req[r].via = "selected"

\* C18 (as claimed): an upload that does not parse as a waveform container
\* ends the request without the recognition engine, the conversation stage or
\* the synthesis stage being invoked, with a client-input (4xx) error.
C18_MalformedIsClientError ==
    \A r \in Reqs :
        (req[r].audio_data = "malformed" /\ req[r].n_stt = 1) =>
            /\ Done(r)
            /\ req[r].n_engine = 0 /\ req[r].n_agent = 0 /\ req[r].n_tts = 0
            /\ req[r].response.status \in 400..499

\* The requests that used thread t at the agent service.
UsersOf(t) == {calls[k].id : k \in {j \in 1..Len(calls) : calls[j].thread = t}}

\* The threads.create calls of request i.
ThreadsCreatedBy(i) ==
    {k \in 1..Len(calls) : calls[k].op = "threads.create" /\ calls[k].id = i}

\* C17: concurrent requests are independent. Under every interleaving of the
\* steps of requests in flight side by side: a request creates at most one
\* thread and it is its own (no other request holds it while the conversation
\* stage runs); every thread is
\* posted to, run and listed by one request only; the message posted carries
\* the request's own transcript, the text synthesized is the reply of its own
\* conversation and the body sent is the audio of that text; and no step of a
\* request changes the agent client, the loaded configuration or the frame of
\* another request.
C17_ConcurrentIndependence ==
    /\ [](/\ \A t \in 1..(next_thread - 1) : Cardinality(UsersOf(t)) <= 1
          /\ \A i \in 1..served : Cardinality(ThreadsCreatedBy(i)) <= 1
          /\ \A r1, r2 \in Reqs :
                (r1 # r2 /\ req[r1].thread # 0) => req[r1].thread # req[r2].thread
          /\ \A r \in Reqs :
                /\ \A k \in 1..Len(calls) :
                      calls[k].id = req[r].id =>
                         /\ (calls[k].op # "threads.create" /\ req[r].thread # 0) =>
                               calls[k].thread = req[r].thread
                         /\ calls[k].op = "messages.create" =>
                               calls[k].content = req[r].user_text
                /\ req[r].n_tts = 1 => req[r].tts_text = req[r].agent_response_text
                /\ (Done(r) /\ req[r].response.status = 200) =>
                      req[r].response.body \in SynthesizedAudio(req[r].tts_text))
    /\ [][/\ project_client' = project_client
          /\ startup' = startup
          /\ \A r1, r2 \in Reqs :
                r1 # r2 => (req'[r1] = req[r1] \/ req'[r2] = req[r2])]_vars

\* C17 witness: two requests are in flight at once, each with a thread of its
\* own, and their calls to the agent service alternate.
C17_Witness ==
    /\ InFlight(1) /\ InFlight(2)
    /\ req[1].thread # 0 /\ req[2].thread # 0
    /\ Len(calls) >= 4
    /\ calls[1].id # calls[2].id
    /\ calls[3].id = calls[1].id
    /\ calls[4].id = calls[2].id

----------------------------------------------------------------------------
\* The browser client (app.py). One run of the script is one UI rerun; it is
\* cut where it waits: at the recorder component and at the HTTP request.
\* recorded, posts and played log what the recorder delivered, the bodies sent
\* to the server and the clips rendered with autoplay.

\* What st_audiorec() can deliver on a rerun: nothing, or a recorded clip.
ClipBytes == {<<"a">>, <<"b">>}
Recordings == {NoClip} \cup {Clip(b) : b \in ClipBytes}

\* response.content of a 200 answer: any byte string, the empty one included.
Bodies == {<<>>, <<"RIFF", "hi">>}

\* The statuses of an answer other than 200.
ErrorStatuses == {"400", "500"}

ChatMessage(role, audio) == [role |-> role, audio |-> audio]

\* Python truthiness of an Optional[bytes]: None and b"" are falsy.
truthy(clip) == clip.present /\ clip.bytes # <<>>

\* Mutant of should_submit: the comparison with last_audio is left out.
clip_present(wav, last_audio) == wav.present

\* wav_audio_data is not None and wav_audio_data != st.session_state.last_audio
should_submit(wav, last_audio) == wav.present /\ wav # last_audio

\* The top of the script: session state, the history, the autoplay handler.
RerunStart ==
    /\ client.pc = "idle"
    /\ client.reruns < MaxReruns
    /\ client' = [client EXCEPT
                    !.pc = "recorder",
                    !.reruns = @ + 1,
                    !.outcome = "none",
                    !.played = IF truthy(client.audio_to_play)
                               THEN Append(@, client.audio_to_play.bytes) ELSE @,
                    !.audio_to_play = IF truthy(client.audio_to_play) THEN NoClip ELSE @]
    /\ UNCHANGED <<startup, project_client, req, served, next_thread, calls>>

\* Mutant of Record: last_audio is not set when the clip is taken.
RecordUnmarked ==
    /\ client.pc = "recorder"
    /\ \E wav \in Recordings :
          client' = [client EXCEPT
                       !.wav_audio_data = wav,
                       !.recorded = Append(@, wav),
                       !.messages = IF should_submit(wav, client.last_audio)
                                    THEN Append(@, ChatMessage("user", wav.bytes)) ELSE @,
                       !.pc = IF should_submit(wav, client.last_audio) THEN "post" ELSE "idle"]
    /\ UNCHANGED <<startup, project_client, req, served, next_thread, calls>>

\* The recorder delivers; a clip that passes the guard becomes last_audio and is
\* appended to the log as the user's entry, otherwise the script ends.
Record ==
    /\ client.pc = "recorder"
    /\ \E wav \in Recordings :
          client' = [client EXCEPT
                       !.wav_audio_data = wav,
                       !.recorded = Append(@, wav),
                       !.last_audio = IF should_submit(wav, client.last_audio) THEN wav ELSE @,
                       !.messages = IF should_submit(wav, client.last_audio)
                                    THEN Append(@, ChatMessage("user", wav.bytes)) ELSE @,
                       !.pc = IF should_submit(wav, client.last_audio) THEN "post" ELSE "idle"]
    /\ UNCHANGED <<startup, project_client, req, served, next_thread, calls>>

\* requests.post(BACKEND_URL, files=files, timeout=60) is sent.
Post ==
    /\ client.pc = "post"
    /\ client' = [client EXCEPT
                    !.pc = "waiting",
                    !.posts = Append(@, client.wav_audio_data.bytes)]
    /\ UNCHANGED <<startup, project_client, req, served, next_thread, calls>>

\* response.status_code == 200: the body is logged as the assistant's entry and
\* marked for autoplay.
Answer200 ==
    /\ client.pc = "waiting"
    /\ \E assistant_audio_bytes \in Bodies :
          client' = [client EXCEPT
                       !.pc = "idle",
                       !.outcome = "200",
                       !.messages = Append(@, ChatMessage("assistant", assistant_audio_bytes)),
                       !.audio_to_play = Clip(assistant_audio_bytes)]
    /\ UNCHANGED <<startup, project_client, req, served, next_thread, calls>>

\* Mutant of AnswerError: the user's entry is taken back out of the log.
AnswerErrorRollback ==
    /\ client.pc = "waiting"
    /\ client' = [client EXCEPT
                    !.pc = "idle",
                    !.outcome = "500",
                    !.messages = SubSeq(@, 1, Len(@) - 1)]
    /\ UNCHANGED <<startup, project_client, req, served, next_thread, calls>>

\* Any other status: st.error(...).
AnswerError ==
    /\ client.pc = "waiting"
    /\ \E status_code \in ErrorStatuses :
          client' = [client EXCEPT !.pc = "idle", !.outcome = status_code]
    /\ UNCHANGED <<startup, project_client, req, served, next_thread, calls>>

\* requests.post raised (connection refused, timeout): st.error(...).
AnswerException ==
    /\ client.pc = "waiting"
    /\ client' = [client EXCEPT !.pc = "idle", !.outcome = "exception"]
    /\ UNCHANGED <<startup, project_client, req, served, next_thread, calls>>

NextClient ==
    \/ RerunStart
    \/ Record
    \/ Post
    \/ Answer200
    \/ AnswerError
    \/ AnswerException

SpecClient == Init /\ [][NextClient]_vars

\* C15: startup is fail-fast on configuration. The server serves (and accepts
\* requests) only if the speech key, a region or an endpoint for it, the agent
\* project endpoint and the agent id are all set; with a speech value missing
\* the load stops at the first check, with an agent value missing at the second,
\* and no request is ever handled; a failed construction of the agent client
\* leaves project_client None and does not stop the load.
C15_FailFastStartup ==
    LET e == startup.env
        speech_ok == e.SPEECH_KEY /\ (e.SPEECH_REGION \/ e.SPEECH_ENDPOINT)
        agent_ok == e.AI_PROJECT_ENDPOINT /\ e.AGENT_ID
    IN  /\ startup.pc = "serving" => speech_ok /\ agent_ok
        /\ ~speech_ok => startup.pc \in {"load", "aborted"}
        /\ ~agent_ok => startup.pc \in {"load", "speech_config", "check_agent", "aborted"}
        /\ startup.pc # "serving" =>
              /\ served = 0
              /\ \A r \in Reqs : req[r] = IdleFrame
        /\ startup.pc = "aborted" =>
              /\ speech_config_missing(e) \/ agent_config_missing(e)
              /\ project_client = "unset"
        /\ project_client = "None" => startup.pc = "serving"
        /\ project_client = "unset" <=> startup.pc # "serving"

\* C15 witness: the construction of the agent client failed, the server serves
\* all the same and has accepted a request.
C15_Witness ==
    /\ startup.pc = "serving"
    /\ project_client = "None"
    /\ served = 1

----------------------------------------------------------------------------
\* Properties of the client session.

\* The clips a guard on "present and different from the last submitted one"
\* lets through, out of what the recorder delivered.
RECURSIVE Submitted(_, _)
Submitted(deliveries, last) ==
    IF deliveries = <<>> THEN <<>>
    ELSE LET wav == Head(deliveries)
         IN  IF wav # NoClip /\ wav # last
             THEN <<wav.bytes>> \o Submitted(Tail(deliveries), wav)
             ELSE Submitted(Tail(deliveries), last)

\* The posts sent, the one about to be sent included.
PostsDue ==
    IF client.pc = "post" THEN Append(client.posts, client.wav_audio_data.bytes)
    ELSE client.posts

\* C12: duplicate-submission guard of the client. Over any sequence of reruns
\* the clips posted are exactly the delivered clips that are present and differ
\* from the clip submitted last, so no two successive posts carry the same
\* bytes and a clip delivered again on the following reruns is posted once.
C12_DuplicateGuard ==
    /\ PostsDue = Submitted(client.recorded, NoClip)
    /\ \A i \in 1..(Len(client.posts) - 1) : client.posts[i] # client.posts[i + 1]
    /\ \A i \in 1..(Len(client.recorded) - 1) :
           (client.recorded[i] # NoClip /\ client.recorded[i + 1] = client.recorded[i]) =>
               Len(Submitted(SubSeq(client.recorded, 1, i + 1), NoClip))
                   = Len(Submitted(SubSeq(client.recorded, 1, i), NoClip))

\* C12 witness: the recorder delivered the same clip on two consecutive reruns
\* and one request was sent.
C12_Witness ==
    /\ client.pc = "idle"
    /\ Len(client.recorded) = 2
    /\ client.recorded[1] # NoClip
    /\ client.recorded[2] = client.recorded[1]
    /\ Len(client.posts) = 1

\* The audio of the entries of a role, in log order.
RECURSIVE AudioOf(_, _)
AudioOf(role, messages) ==
    IF messages = <<>> THEN <<>>
    ELSE (IF Head(messages).role = role THEN <<Head(messages).audio>> ELSE <<>>)
            \o AudioOf(role, Tail(messages))

\* The script ended with a 200 answer and has not run again.
JustAnswered == client.pc = "idle" /\ client.outcome = "200"

\* C13: autoplay handoff of the client. After a round trip that ended with
\* status 200 the assistant's clip, whatever its bytes, is marked for autoplay;
\* once the next rerun has passed the autoplay handler the clip has been played
\* with autoplay exactly once and the mark is cleared, so the clips played are
\* the assistant entries of the log, each once.
C13_AutoplayOnce ==
    /\ JustAnswered =>
          /\ client.audio_to_play = Clip(client.messages[Len(client.messages)].audio)
          /\ Append(client.played, client.audio_to_play.bytes)
                = AudioOf("assistant", client.messages)
    /\ ~JustAnswered =>
          /\ client.audio_to_play = NoClip
          /\ client.played = AudioOf("assistant", client.messages)

\* C14: the session log of the client is append-only and is not rolled back.
\* Every step leaves the entries already in the log where they are; the user's
\* entry is in the log before the request is sent; an answer with another
\* status than 200, or an exception of the request, appends nothing and leaves
\* the autoplay mark as it was; only a 200 answer appends an assistant entry.
C14_AppendOnlyLog ==
    [][LET before == client.messages
           after == client'.messages
           answered == client.pc = "waiting" /\ client'.pc = "idle"
       IN  /\ IsPrefix(before, after)
           /\ Len(after) <= Len(before) + 1
           /\ client'.pc \in {"post", "waiting"} =>
                 after[Len(after)] = ChatMessage("user", client'.wav_audio_data.bytes)
           /\ Len(client'.posts) > Len(client.posts) =>
                 before[Len(before)] = ChatMessage("user", client'.posts[Len(client'.posts)])
           /\ (answered /\ client'.outcome # "200") =>
                 /\ after = before
                 /\ client'.audio_to_play = client.audio_to_play
           /\ (after # before /\ after[Len(after)].role = "assistant") =>
                 answered /\ client'.outcome = "200"
           /\ (answered /\ client'.outcome = "200") =>
                 Len(after) = Len(before) + 1 /\ after[Len(after)].role = "assistant"]_vars

\* C14 witness: a request failed and the user's clip is still the last entry
\* of the log, with no assistant entry after it.
C14_Witness ==
    /\ client.pc = "idle"
    /\ client.outcome \in ErrorStatuses \cup {"exception"}
    /\ Len(client.messages) = 3
    /\ client.messages[3].role = "user"
    /\ client.messages[2].role = "assistant"

\* The last element of a non-empty sequence.
Last(seq) == seq[Len(seq)]

\* C19: the dedupe marker of the client session. At the end of every rerun
\* last_audio is None exactly when the log has no user entry and is otherwise
\* the audio of the last user entry, and the requests sent are as many as the
\* user entries (and carry their audio); the marker is set before the request
\* is sent, so it is already the clip in flight while the request is pending
\* and still that clip after the request failed.
C19_MarkerFollowsUserEntries ==
    LET users == AudioOf("user", client.messages)
    IN  /\ client.pc = "idle" =>
              /\ client.last_audio = NoClip <=> users = <<>>
              /\ users # <<>> => client.last_audio = Clip(Last(users))
              /\ Len(client.posts) = Len(users)
              /\ client.posts = users
        /\ client.pc \in {"post", "waiting"} =>
              /\ client.last_audio = client.wav_audio_data
              /\ client.last_audio = Clip(Last(users))
        /\ (client.pc = "idle" /\ client.outcome \in ErrorStatuses \cup {"exception"}) =>
              /\ client.last_audio = Clip(Last(client.posts))
              /\ \A wav \in Recordings :
                     wav = Clip(Last(client.posts)) => ~should_submit(wav, client.last_audio)

\* C19 witness: the request for a clip failed, the recorder delivered the same
\* clip again on the next rerun, and it was not posted a second time.
C19_Witness ==
    /\ client.pc = "idle"
    /\ Len(client.recorded) = 2
    /\ client.recorded[1] # NoClip
    /\ client.recorded[2] = client.recorded[1]
    /\ client.messages = <<ChatMessage("user", client.recorded[1].bytes)>>
    /\ client.posts = <<client.recorded[1].bytes>>
    /\ client.last_audio = client.recorded[1]

\* C20: shape of the client session in every reachable state. Every assistant
\* entry of the log comes right after a user entry, so assistant entries never
\* outnumber user entries; and whenever audio_to_play is set (not None) it is
\* the audio of the last entry of the log, which is an assistant entry.
C20_LogShapeAndMark ==
    /\ \A i \in 1..Len(client.messages) :
           client.messages[i].role = "assistant" =>
               i > 1 /\ client.messages[i - 1].role = "user"
    /\ Len(AudioOf("assistant", client.messages)) <= Len(AudioOf("user", client.messages))
    /\ client.audio_to_play # NoClip =>
           /\ client.messages # <<>>
           /\ Last(client.messages) = ChatMessage("assistant", client.audio_to_play.bytes)

====
